---- MODULE Spec2Model ----
(***************************************************************************)
(* Model of kpireport's Prometheus alert summary view                      *)
(* (src/kpireport/plugins/prometheus.py) and of the plugin manager that    *)
(* output.py and tests/test_plugin.py use.                                 *)
(*                                                                         *)
(* Time is counted in whole seconds.  A window is the pair <<start, end>>  *)
(* (the code's two-element list [start, end]).  Percentages are counted in *)
(* hundredths, so that round(x, 2) is a rounding to an integer.            *)
(***************************************************************************)
EXTENDS Integers, Sequences, FiniteSets, TLC

VARIABLES
    res,          \* the resolution string handed to _parse_resolution
    parsed,       \* what _parse_resolution did with it
    resolution,   \* self.resolution, in seconds
    list_ts,      \* the timestamps handed to _compute_time_windows
    windows,      \* what _compute_time_windows returned
    cw_in,        \* the windows handed to _compress_time_windows
    compressed,   \* what _compress_time_windows returned
    report,       \* self.report: [start_date, end_date], in seconds
    result,       \* the series the Prometheus server answers the query with
    tv,           \* the lru_cache of _template_vars
    raised,       \* the exception the last _template_vars call raised
    pc,           \* "start" before the call under study, "done" after it
    manager,      \* the class of the plugin manager
    conf,         \* its configuration: entry name -> Configuration Entry
    instances,    \* the memoized instances: entry name -> instance id, 0 if none
    errs,         \* the recorded errors: entry name -> sequence of errors
    ctor_calls,   \* how often each entry's plugin constructor was run
    last          \* the last call on the manager and what it gave back

fnVars == <<res, parsed, resolution, list_ts, windows, cw_in, compressed>>
viewVars == <<report, result, tv, raised>>
pluginVars == <<manager, conf, instances, errs, ctor_calls, last>>

vars == <<res, parsed, resolution, list_ts, windows, cw_in, compressed,
          report, result, tv, raised, pc,
          manager, conf, instances, errs, ctor_calls, last>>

\* No exception.
None == "None"

\* The value of `parsed` before _parse_resolution is called.
NotParsed == [raises |-> "NotCalled", value |-> 0]

\* The lru_cache of _template_vars before the first call that returns.
EmptyCache == [cached |-> FALSE, summary |-> <<>>, timeline |-> <<>>]

\* The view-side variables of a state in which no view is under study.
NoView ==
    /\ report = [start_date |-> 0, end_date |-> 0]
    /\ result = <<>>
    /\ tv = EmptyCache
    /\ raised = "NotCalled"

\* The manager before any call on it.
NoCall ==
    [op |-> "none", name |-> "", method |-> "", instance |-> 0, value |-> "None",
     errors |-> <<>>, escaped |-> FALSE]

\* The plugin-side variables of a state in which no manager is under study.
NoPlugins ==
    /\ manager = "PluginManager"
    /\ conf = <<>>
    /\ instances = <<>>
    /\ errs = <<>>
    /\ ctor_calls = <<>>
    /\ last = NoCall

Max(a, b) == IF a >= b THEN a ELSE b

\* All sequences over S of length at most n.
SeqsUpTo(S, n) == UNION {[1..k -> S] : k \in 0..n}

----------------------------------------------------------------------------
(* _parse_resolution *)

MaxResLen == 3

\* The characters resolution strings are drawn from: two digits, the six
\* units of the pattern, and a character that is neither.
Digits == {"1", "5"}
Units == {"s", "m", "h", "d", "w", "y"}
Chars == Digits \cup Units \cup {"x"}

DigitValue(c) == IF c = "1" THEN 1 ELSE 5

\* int(match.group(1))
RECURSIVE IntOf(_)
IntOf(ds) ==
    IF ds = <<>> THEN 0
    ELSE 10 * IntOf(SubSeq(ds, 1, Len(ds) - 1)) + DigitValue(ds[Len(ds)])

\* The length of the longest prefix of s matched by [0-9]+ (greedy).
RECURSIVE DigitRun(_)
DigitRun(s) ==
    IF s = <<>> \/ s[1] \notin Digits THEN 0 ELSE 1 + DigitRun(Tail(s))

\* re.match(RESOLUTION_REGEX, res): anchored at the start of the string only.
RegexMatch(s) ==
    LET n == DigitRun(s)
    IN  IF n >= 1 /\ Len(s) > n /\ s[n + 1] \in Units
        THEN [matched |-> TRUE, group1 |-> SubSeq(s, 1, n), group2 |-> s[n + 1]]
        ELSE [matched |-> FALSE, group1 |-> <<>>, group2 |-> ""]

\* The keyword the unit maps to.
mapping(u) ==
    CASE u = "s" -> "seconds"
      [] u = "m" -> "minutes"
      [] u = "h" -> "hours"
      [] u = "d" -> "days"
      [] u = "w" -> "weeks"
      [] u = "y" -> "years"

\* The keywords datetime.timedelta accepts, with their length in seconds
\* (milliseconds and microseconds are not reachable from the mapping).
TimedeltaKwargs == {"seconds", "minutes", "hours", "days", "weeks"}
SecondsOf(kw) ==
    CASE kw = "seconds" -> 1
      [] kw = "minutes" -> 60
      [] kw = "hours" -> 3600
      [] kw = "days" -> 86400
      [] kw = "weeks" -> 604800

\* _parse_resolution(res): the duration in seconds, or the exception raised.
parse_resolution(s) ==
    LET match == RegexMatch(s)
    IN  IF ~match.matched
        THEN [raises |-> "ValueError", value |-> 0]
        ELSE LET kw == mapping(match.group2)
             IN  IF kw \notin TimedeltaKwargs
                 THEN [raises |-> "TypeError", value |-> 0]
                 ELSE [raises |-> None,
                       value |-> IntOf(match.group1) * SecondsOf(kw)]

----------------------------------------------------------------------------
(* _compute_time_windows *)

MaxLen == 4
MaxTs == 6
MaxRes == 3

\* ComputeLoop closing the running window on ts >= end instead of ts > end.
RECURSIVE ComputeLoopGe(_, _, _, _)
ComputeLoopGe(ts, i, ws, r) ==
    IF i > Len(ts) THEN ws
    ELSE IF ts[i] >= ws[Len(ws)][2]
         THEN ComputeLoopGe(ts, i + 1, Append(ws, <<ts[i], ts[i] + r>>), r)
         ELSE ComputeLoopGe(ts, i + 1, [ws EXCEPT ![Len(ws)][2] = ts[i] + r], r)

\* for ts in list_ts: ... (the loop runs over every timestamp, the first
\* included)
RECURSIVE ComputeLoop(_, _, _, _)
ComputeLoop(ts, i, ws, r) ==
    IF i > Len(ts) THEN ws
    ELSE IF ts[i] > ws[Len(ws)][2]
         THEN ComputeLoop(ts, i + 1, Append(ws, <<ts[i], ts[i] + r>>), r)
         ELSE ComputeLoop(ts, i + 1, [ws EXCEPT ![Len(ws)][2] = ts[i] + r], r)

compute_time_windows(ts, r) ==
    IF ts = <<>> THEN <<>>
    ELSE ComputeLoop(ts, 1, << <<ts[1], ts[1] + r>> >>, r)

----------------------------------------------------------------------------
(* _compress_time_windows *)

MaxWindows == 3
MaxEnd == 3

\* sorted(windows, key=itemgetter(0)): a stable sort on the start.
RECURSIVE InsertByStart(_, _)
InsertByStart(sorted, w) ==
    IF sorted = <<>> THEN <<w>>
    ELSE IF w[1] < sorted[Len(sorted)][1]
         THEN Append(InsertByStart(SubSeq(sorted, 1, Len(sorted) - 1), w),
                     sorted[Len(sorted)])
         ELSE Append(sorted, w)

RECURSIVE SortByStart(_)
SortByStart(ws) ==
    IF ws = <<>> THEN <<>>
    ELSE InsertByStart(SortByStart(SubSeq(ws, 1, Len(ws) - 1)), ws[Len(ws)])

\* CompressLoop merging on start <= end instead of start < end.
RECURSIVE CompressLoopLe(_, _, _)
CompressLoopLe(sw, i, acc) ==
    IF i > Len(sw) THEN acc
    ELSE IF sw[i][1] <= acc[Len(acc)][2]
         THEN CompressLoopLe(sw, i + 1,
                  [acc EXCEPT ![Len(acc)][2] = Max(acc[Len(acc)][2], sw[i][2])])
         ELSE CompressLoopLe(sw, i + 1, Append(acc, sw[i]))

\* for start, end in sorted_windows[1:]: ...
RECURSIVE CompressLoop(_, _, _)
CompressLoop(sw, i, acc) ==
    IF i > Len(sw) THEN acc
    ELSE IF sw[i][1] < acc[Len(acc)][2]
         THEN CompressLoop(sw, i + 1,
                  [acc EXCEPT ![Len(acc)][2] = Max(acc[Len(acc)][2], sw[i][2])])
         ELSE CompressLoop(sw, i + 1, Append(acc, sw[i]))

\* The running window shares its list with the first sorted input window,
\* which the loop therefore also extends; nothing reads the input afterwards.
compress_time_windows(ws) ==
    LET sorted_windows == SortByStart(ws)
    IN  IF sorted_windows = <<>> THEN <<>>
        ELSE CompressLoop(sorted_windows, 2, <<sorted_windows[1]>>)

----------------------------------------------------------------------------
(* PrometheusDatasource.query and PrometheusAlertSummary._template_vars *)

MaxSeries == 2
MaxRows == 3

\* The ranking is studied on more series, of four alert names.
MaxRanked == 3

\* The length of the report and the dates it may start at, in seconds.
ReportDurations == {12}
ReportStarts == {0, 2, 3}

\* The resolution the view is configured with.
ResolutionArg == <<"5", "s">>

\* The label sets of the ALERTS series the server may hold.  Every series
\* carries the same labels; "instance" is one of the default ignore_labels,
\* "device" is not.
Metrics ==
    {[alertname |-> "A", alertstate |-> "firing", device |-> "d1", instance |-> "i1"],
     [alertname |-> "A", alertstate |-> "firing", device |-> "d1", instance |-> "i2"],
     [alertname |-> "A", alertstate |-> "firing", device |-> "d2", instance |-> "i1"],
     [alertname |-> "B", alertstate |-> "firing", device |-> "d1", instance |-> "i1"],
     [alertname |-> "C", alertstate |-> "firing", device |-> "d1", instance |-> "i1"],
     [alertname |-> "B", alertstate |-> "pending", device |-> "d1", instance |-> "i1"]}

\* One firing series for each of four alert names.
RankingMetrics ==
    {[alertname |-> n, alertstate |-> "firing", device |-> "d1", instance |-> "i1"] :
        n \in {"A", "B", "C", "D"}}

\* The order groupby puts the group keys in (sort=True).
DeviceOrder == <<"d1", "d2">>

\* The columns of a frame built from at least one series.
SeriesColumns ==
    <<"time", "value", "__name__", "alertname", "alertstate", "device", "instance">>

Range(f) == {f[i] : i \in DOMAIN f}

\* The elements of a finite set of integers, ascending.
RECURSIVE SortedSeq(_)
SortedSeq(S) ==
    IF S = {} THEN <<>>
    ELSE LET m == CHOOSE x \in S : \A y \in S : y <= x
         IN  Append(SortedSeq(S \ {m}), m)

\* The sample times of a range query: start, start + step, ... up to end.
Ticks(rep, step) ==
    {rep.start_date + k * step :
        k \in 0..((rep.end_date - rep.start_date) \div step)}

\* What the server may answer: distinct series, in any order, each with its
\* samples in ascending time.
QueryResults(rep, step, metrics, maxseries, maxrows) ==
    LET values == {SortedSeq(S) : S \in (SUBSET Ticks(rep, step)) \ {{}}}
        series == [metric : metrics, values : values]
        rows(r) == IF r = <<>> THEN 0
                   ELSE LET n[i \in 0..Len(r)] ==
                                IF i = 0 THEN 0 ELSE n[i - 1] + Len(r[i].values)
                        IN  n[Len(r)]
    IN  {r \in SeqsUpTo(series, maxseries) :
            /\ \A i, j \in 1..Len(r) : i # j => r[i].metric # r[j].metric
            /\ rows(r) <= maxrows}

\* mdf: one row per sample of the series, with the labels as columns.
SeriesRows(metric) ==
    [i \in 1..Len(metric.values) |->
        [time |-> metric.values[i],
         alertname |-> metric.metric.alertname,
         alertstate |-> metric.metric.alertstate,
         device |-> metric.metric.device,
         instance |-> metric.metric.instance]]

\* for metric in result: df = df.append(mdf)
RECURSIVE AppendAll(_, _)
AppendAll(rs, i) ==
    IF i > Len(rs) THEN <<>> ELSE SeriesRows(rs[i]) \o AppendAll(rs, i + 1)

\* PrometheusDatasource.query: pd.DataFrame() has no columns and stays so
\* when the result list is empty.
query(rs) ==
    [columns |-> IF rs = <<>> THEN <<>> ELSE SeriesColumns,
     rows |-> AppendAll(rs, 1)]

\* The nearest multiple, ties to the even one: n/d rounded to an integer.
RoundHalfEven(n, d) ==
    LET q == n \div d
        rem == n % d
    IN  IF 2 * rem > d \/ (2 * rem = d /\ q % 2 = 1) THEN q + 1 ELSE q

\* df_a["time"].dt.round(offset)
RoundTime(t, r) == RoundHalfEven(t, r) * r

\* df["alertname"].unique(): the values in order of first appearance.
RECURSIVE Unique(_)
Unique(xs) ==
    IF xs = <<>> THEN <<>>
    ELSE LET init == Unique(SubSeq(xs, 1, Len(xs) - 1))
             x == xs[Len(xs)]
         IN  IF x \in Range(init) THEN init ELSE Append(init, x)

\* chain(*lists)
RECURSIVE Chain(_)
Chain(lists) ==
    IF lists = <<>> THEN <<>> ELSE Head(lists) \o Chain(Tail(lists))

\* _total_time: reduce(lambda agg, x: agg + (x[1] - x[0]), windows, 0)
RECURSIVE total_time(_)
total_time(ws) ==
    IF ws = <<>> THEN 0
    ELSE total_time(SubSeq(ws, 1, Len(ws) - 1)) + (ws[Len(ws)][2] - ws[Len(ws)][1])

\* df_a.groupby(labels)["time"]: one group per device present, the keys in
\* sorted order, the rows of a group in the order they have in the frame.
GroupTimes(df_a) ==
    LET present == SelectSeq(DeviceOrder,
                             LAMBDA d : \E i \in 1..Len(df_a) : df_a[i].device = d)
    IN  [g \in 1..Len(present) |->
            LET rows == SelectSeq(df_a, LAMBDA row : row.device = present[g])
            IN  [i \in 1..Len(rows) |-> rows[i].time]]

\* AlertSummary adding up the windows of the label groups as they are before
\* compression.
AlertSummaryTotalUncompressed(df, alertname, r) ==
    LET rows == SelectSeq(df, LAMBDA row : row.alertname = alertname)
        df_a == [i \in 1..Len(rows) |->
                    [rows[i] EXCEPT !.time = RoundTime(rows[i].time, r)]]
        groups == GroupTimes(df_a)
        firings == [g \in 1..Len(groups) |-> compute_time_windows(groups[g], r)]
        all_firings == Chain(firings)
        ws == compress_time_windows(all_firings)
    IN  [alertname |-> alertname,
         total_time |-> total_time(all_firings),
         num_firings |-> Len(all_firings),
         windows |-> ws]

\* AlertSummary counting the windows left after compression.
AlertSummaryCountsCompressed(df, alertname, r) ==
    LET rows == SelectSeq(df, LAMBDA row : row.alertname = alertname)
        df_a == [i \in 1..Len(rows) |->
                    [rows[i] EXCEPT !.time = RoundTime(rows[i].time, r)]]
        groups == GroupTimes(df_a)
        firings == [g \in 1..Len(groups) |-> compute_time_windows(groups[g], r)]
        ws == compress_time_windows(Chain(firings))
    IN  [alertname |-> alertname,
         total_time |-> total_time(ws),
         num_firings |-> Len(ws),
         windows |-> ws]

\* The body of the loop over the alert names: one Alert Summary.
AlertSummary(df, alertname, r) ==
    LET rows == SelectSeq(df, LAMBDA row : row.alertname = alertname)
        df_a == [i \in 1..Len(rows) |->
                    [rows[i] EXCEPT !.time = RoundTime(rows[i].time, r)]]
        groups == GroupTimes(df_a)
        firings == [g \in 1..Len(groups) |-> compute_time_windows(groups[g], r)]
        all_firings == Chain(firings)
        ws == compress_time_windows(all_firings)
    IN  [alertname |-> alertname,
         total_time |-> total_time(ws),
         num_firings |-> Len(all_firings),
         windows |-> ws]

\* InsertByTotal putting a summary before those with an equal total (what
\* sorting ascending and reversing the list would give).
RECURSIVE InsertByTotalGe(_, _)
InsertByTotalGe(sorted, a) ==
    IF sorted = <<>> THEN <<a>>
    ELSE IF a.total_time >= sorted[Len(sorted)].total_time
         THEN Append(InsertByTotalGe(SubSeq(sorted, 1, Len(sorted) - 1), a),
                     sorted[Len(sorted)])
         ELSE Append(sorted, a)

\* sorted(summary, key=itemgetter("total_time"), reverse=True): stable, so
\* summaries with equal totals keep their order.
RECURSIVE InsertByTotal(_, _)
InsertByTotal(sorted, a) ==
    IF sorted = <<>> THEN <<a>>
    ELSE IF a.total_time > sorted[Len(sorted)].total_time
         THEN Append(InsertByTotal(SubSeq(sorted, 1, Len(sorted) - 1), a),
                     sorted[Len(sorted)])
         ELSE Append(sorted, a)

RECURSIVE SortByTotal(_)
SortByTotal(summary) ==
    IF summary = <<>> THEN <<>>
    ELSE InsertByTotal(SortByTotal(SubSeq(summary, 1, Len(summary) - 1)),
                       summary[Len(summary)])

\* round(100 * x / td, 2), in hundredths of a percent.  The quotient is
\* rounded exactly; the report lengths used have no quotient that lies
\* halfway between two hundredths, where the float could fall either side.
Pct(x, td) == RoundHalfEven(100 * 100 * x, td)

\* normalize_time_windows with the window cut to the report's range.
normalize_time_windows_cut(ws, rep) ==
    LET td == rep.end_date - rep.start_date
        lo(w) == Max(w[1], rep.start_date)
        hi(w) == IF w[2] <= rep.end_date THEN w[2] ELSE rep.end_date
    IN  [i \in 1..Len(ws) |->
            <<Pct(lo(ws[i]) - rep.start_date, td), Pct(hi(ws[i]) - lo(ws[i]), td)>>]

\* _normalize_time_windows
normalize_time_windows(ws, rep) ==
    LET td == rep.end_date - rep.start_date
    IN  [i \in 1..Len(ws) |->
            <<Max(0, Pct(ws[i][1] - rep.start_date, td)),
              Pct(ws[i][2] - ws[i][1], td)>>]

\* _template_vars, from the frame the datasource returned (self.labels is
\* None, ignore_labels is the default).
template_vars(df, r, rep) ==
    IF "alertstate" \notin Range(df.columns)
    THEN [raises |-> "KeyError", summary |-> <<>>, timeline |-> <<>>]
    ELSE LET firing == SelectSeq(df.rows, LAMBDA row : row.alertstate = "firing")
             names == Unique([i \in 1..Len(firing) |-> firing[i].alertname])
             summary == [k \in 1..Len(names) |-> AlertSummary(firing, names[k], r)]
             time_ordered == SortByTotal(summary)
             timeline == normalize_time_windows(
                             Chain([k \in 1..Len(summary) |-> summary[k].windows]),
                             rep)
         IN  [raises |-> None, summary |-> time_ordered, timeline |-> timeline]

----------------------------------------------------------------------------
(* Specifications of the three functions on their own. *)

\* --- _parse_resolution on every string up to MaxResLen characters
InitResolution ==
    /\ res \in SeqsUpTo(Chars, MaxResLen)
    /\ parsed = NotParsed /\ resolution = 0
    /\ list_ts = <<>> /\ windows = <<>>
    /\ cw_in = <<>> /\ compressed = <<>>
    /\ NoView
    /\ NoPlugins
    /\ pc = "start"

\* init(): self.resolution = self._parse_resolution(resolution)
ParseResolution ==
    /\ pc = "start"
    /\ pc' = "done"
    /\ parsed' = parse_resolution(res)
    /\ resolution' = IF parsed'.raises = None THEN parsed'.value ELSE resolution
    /\ UNCHANGED <<res, list_ts, windows, cw_in, compressed>>
    /\ UNCHANGED <<viewVars, pluginVars>>

SpecResolution == InitResolution /\ [][ParseResolution]_vars

\* --- _compute_time_windows on every ascending sequence of timestamps
Ascending(ts) == \A i \in 1..(Len(ts) - 1) : ts[i] <= ts[i + 1]

InitWindows ==
    /\ res = <<>> /\ parsed = NotParsed
    /\ resolution \in 0..MaxRes
    /\ list_ts \in {ts \in SeqsUpTo(0..MaxTs, MaxLen) : Ascending(ts)}
    /\ windows = <<>>
    /\ cw_in = <<>> /\ compressed = <<>>
    /\ NoView
    /\ NoPlugins
    /\ pc = "start"

ComputeTimeWindows ==
    /\ pc = "start"
    /\ pc' = "done"
    /\ windows' = compute_time_windows(list_ts, resolution)
    /\ UNCHANGED <<res, parsed, resolution, list_ts, cw_in, compressed>>
    /\ UNCHANGED <<viewVars, pluginVars>>

SpecWindows == InitWindows /\ [][ComputeTimeWindows]_vars

\* --- _compress_time_windows on every list of windows with start <= end
WellFormed == {w \in (0..MaxEnd) \X (0..MaxEnd) : w[1] <= w[2]}

InitCompress ==
    /\ res = <<>> /\ parsed = NotParsed /\ resolution = 0
    /\ list_ts = <<>> /\ windows = <<>>
    /\ cw_in \in SeqsUpTo(WellFormed, MaxWindows)
    /\ compressed = <<>>
    /\ NoView
    /\ NoPlugins
    /\ pc = "start"

CompressTimeWindows ==
    /\ pc = "start"
    /\ pc' = "done"
    /\ compressed' = compress_time_windows(cw_in)
    /\ UNCHANGED <<res, parsed, resolution, list_ts, windows, cw_in>>
    /\ UNCHANGED <<viewVars, pluginVars>>

SpecCompress == InitCompress /\ [][CompressTimeWindows]_vars

----------------------------------------------------------------------------
(* The view: constructed with ResolutionArg, rendered any number of times. *)

Init ==
    /\ res = ResolutionArg
    /\ parsed = parse_resolution(res)
    /\ resolution = parsed.value
    /\ list_ts = <<>> /\ windows = <<>>
    /\ cw_in = <<>> /\ compressed = <<>>
    /\ \E s \in ReportStarts, d \in ReportDurations :
          report = [start_date |-> s, end_date |-> s + d]
    /\ result \in QueryResults(report, resolution, Metrics, MaxSeries, MaxRows)
    /\ tv = EmptyCache
    /\ raised = "NotCalled"
    /\ NoPlugins
    /\ pc = "start"

\* _template_vars() with nothing cached: query the datasource and compute.
\* lru_cache keeps a returned value, not an exception.
TemplateVars ==
    /\ ~tv.cached
    /\ LET out == template_vars(query(result), resolution, report)
       IN  /\ raised' = out.raises
           /\ tv' = IF out.raises = None
                    THEN [cached |-> TRUE, summary |-> out.summary,
                          timeline |-> out.timeline]
                    ELSE tv
    /\ pc' = "done"
    /\ UNCHANGED <<fnVars, report, result, pluginVars>>

\* _template_vars() again (render_html, render_md, render_slack): the
\* cached value is returned.
TemplateVarsCached ==
    /\ tv.cached
    /\ UNCHANGED vars

Next == TemplateVars \/ TemplateVarsCached

Spec == Init /\ [][Next]_vars

\* The same view over up to MaxRanked series of different alert names, each
\* firing at any of the report's sample times.
InitRanking ==
    /\ res = ResolutionArg
    /\ parsed = parse_resolution(res)
    /\ resolution = parsed.value
    /\ list_ts = <<>> /\ windows = <<>>
    /\ cw_in = <<>> /\ compressed = <<>>
    /\ \E d \in ReportDurations : report = [start_date |-> 0, end_date |-> d]
    /\ result \in QueryResults(report, resolution, RankingMetrics, MaxRanked,
                               MaxRanked * Cardinality(Ticks(report, resolution)))
    /\ tv = EmptyCache
    /\ raised = "NotCalled"
    /\ NoPlugins
    /\ pc = "start"

SpecRanking == InitRanking /\ [][Next]_vars

----------------------------------------------------------------------------
(* The plugin manager (Plugin Runtime): resolve, invoke, errors. *)

MaxErrors == 2

\* The manager classes: each sets the class of the errors it records.
Managers == {"OutputDriverManager", "TestPluginManager"}

\* exc_class left at a base class's value.
exc_class_unset(mgr) == "Exception"

\* exc_class of the manager class.
exc_class(mgr) ==
    CASE mgr = "OutputDriverManager" -> "OutputDriverError"
      [] mgr = "TestPluginManager" -> "TestException"

\* The names of the configured entries, and a name that has no entry.
Names == {"first", "second"}
AllNames == Names \cup {"other"}

\* The capability registry: a plugin that can be constructed and one whose
\* constructor raises.
Registry ==
    [my_plugin |-> [ctor |-> "ok"], bad_plugin |-> [ctor |-> "raises"]]

\* The Configuration Entries: a valid one, one without plugin key, one whose
\* plugin key the registry does not know, one whose args are a scalar, and
\* one whose plugin's constructor raises.
Entries ==
    {[plugin |-> "my_plugin", args |-> "absent"],
     [plugin |-> "", args |-> "absent"],
     [plugin |-> "missing", args |-> "absent"],
     [plugin |-> "my_plugin", args |-> "scalar"],
     [plugin |-> "bad_plugin", args |-> "absent"]}

\* The methods a call may name: one that returns, one that raises, and one
\* the instance does not have.
Methods == {"my_method", "bad_method", "no_method"}

\* Why resolving the entry fails, or None.
ResolveFailure(cf, name) ==
    IF name \notin DOMAIN cf THEN "NoSuchEntry"
    ELSE IF cf[name].plugin = "" THEN "MissingPluginKey"
    ELSE IF cf[name].plugin \notin DOMAIN Registry THEN "UnknownPlugin"
    ELSE IF cf[name].args = "scalar" THEN "InvalidArgs"
    ELSE IF Registry[cf[name].plugin].ctor = "raises" THEN "ConstructorRaised"
    ELSE None

\* Whether resolving the entry gets as far as running the constructor.
RunsConstructor(cf, name) ==
    ResolveFailure(cf, name) \in {None, "ConstructorRaised"}

\* The error recorded for an entry.
PluginError(name, cause) ==
    [cls |-> exc_class(manager), name |-> name, cause |-> cause]

\* resolve(name) without the instance cache: every call constructs.
resolve_unmemoized(name) ==
    LET cause == ResolveFailure(conf, name)
        ran == IF RunsConstructor(conf, name)
               THEN [ctor_calls EXCEPT ![name] = @ + 1]
               ELSE ctor_calls
        fresh == Cardinality({n \in AllNames : instances[n] # 0}) + 1
    IN  IF cause = None
        THEN [instances |-> [instances EXCEPT ![name] = fresh],
              errs |-> errs, ctor_calls |-> ran, instance |-> fresh]
        ELSE [instances |-> instances,
              errs |-> [errs EXCEPT ![name] = Append(@, PluginError(name, cause))],
              ctor_calls |-> ran, instance |-> 0]

\* resolve(name): the memoized instance, or a first construction; a failure
\* is recorded under the entry's name.  Gives the manager's fields after the
\* call and the instance returned (0: none).
resolve(name) ==
    IF instances[name] # 0
    THEN [instances |-> instances, errs |-> errs, ctor_calls |-> ctor_calls,
          instance |-> instances[name]]
    ELSE LET cause == ResolveFailure(conf, name)
             ran == IF RunsConstructor(conf, name)
                    THEN [ctor_calls EXCEPT ![name] = @ + 1]
                    ELSE ctor_calls
             fresh == Cardinality({n \in AllNames : instances[n] # 0}) + 1
         IN  IF cause = None
             THEN [instances |-> [instances EXCEPT ![name] = fresh],
                   errs |-> errs, ctor_calls |-> ran, instance |-> fresh]
             ELSE [instances |-> instances,
                   errs |-> [errs EXCEPT ![name] = Append(@, PluginError(name, cause))],
                   ctor_calls |-> ran, instance |-> 0]

\* What calling the method on an instance does.
MethodOutcome(method) ==
    CASE method = "my_method" -> [cause |-> None, value |-> "value"]
      [] method = "bad_method" -> [cause |-> "MethodRaised", value |-> "None"]
      [] method = "no_method" -> [cause |-> "MethodMissing", value |-> "None"]

InitPlugins ==
    /\ res = <<>> /\ parsed = NotParsed /\ resolution = 0
    /\ list_ts = <<>> /\ windows = <<>>
    /\ cw_in = <<>> /\ compressed = <<>>
    /\ NoView
    /\ pc = "start"
    /\ manager \in Managers
    /\ conf \in [Names -> Entries]
    /\ instances = [n \in AllNames |-> 0]
    /\ errs = [n \in AllNames |-> <<>>]
    /\ ctor_calls = [n \in AllNames |-> 0]
    /\ last = NoCall

Resolve(name) ==
    /\ Len(errs[name]) < MaxErrors
    /\ LET r == resolve(name)
       IN  /\ instances' = r.instances
           /\ errs' = r.errs
           /\ ctor_calls' = r.ctor_calls
           /\ last' = [NoCall EXCEPT !.op = "resolve", !.name = name,
                                     !.instance = r.instance]
    /\ UNCHANGED <<fnVars, viewVars, pc, manager, conf>>

\* invoke(name, method): resolve, then call the method; a missing or raising
\* method is recorded under the entry's name.
Invoke(name, method) ==
    /\ Len(errs[name]) < MaxErrors
    /\ LET r == resolve(name)
           m == MethodOutcome(method)
       IN  /\ instances' = r.instances
           /\ ctor_calls' = r.ctor_calls
           /\ errs' = IF r.instance # 0 /\ m.cause # None
                      THEN [r.errs EXCEPT ![name] = Append(@, PluginError(name, m.cause))]
                      ELSE r.errs
           /\ last' = [NoCall EXCEPT !.op = "invoke", !.name = name,
                                     !.method = method, !.instance = r.instance,
                                     !.value = IF r.instance # 0 THEN m.value
                                               ELSE "None"]
    /\ UNCHANGED <<fnVars, viewVars, pc, manager, conf>>

\* errors(name): the errors recorded for the entry, oldest first.
Errors(name) ==
    /\ last' = [NoCall EXCEPT !.op = "errors", !.name = name, !.errors = errs[name]]
    /\ UNCHANGED <<fnVars, viewVars, pc, manager, conf, instances, errs, ctor_calls>>

NextPlugins ==
    \E name \in AllNames :
        \/ Resolve(name)
        \/ \E method \in Methods : Invoke(name, method)
        \/ Errors(name)

SpecPlugins == InitPlugins /\ [][NextPlugins]_vars

----------------------------------------------------------------------------
(* Properties *)

\* The k-th smallest element of a finite set of integers.
KthOf(S, k) == CHOOSE i \in S : Cardinality({j \in S : j <= i}) = k

\* The largest element of a non-empty finite set of integers.
MaxOf(S) == CHOOSE m \in S : \A x \in S : x <= m

\* --- C1
\* The indices at which a maximal run of timestamps with gaps <= r begins.
C1_RunStarts(ts, r) ==
    {i \in 1..Len(ts) : i = 1 \/ ts[i] > ts[i - 1] + r}

\* The last index of the run that begins at i.
C1_RunEnd(ts, r, i) ==
    MaxOf({j \in i..Len(ts) : \A k \in (i + 1)..j : k \notin C1_RunStarts(ts, r)})

C1_Runs(ts, r) ==
    [k \in 1..Cardinality(C1_RunStarts(ts, r)) |->
        LET i == KthOf(C1_RunStarts(ts, r), k)
        IN  <<ts[i], ts[C1_RunEnd(ts, r, i)] + r>>]

\* C1: for an ascending list of timestamps, _compute_time_windows returns []
\* for the empty list and otherwise, in order, one window [first, last + r]
\* per maximal run of timestamps whose consecutive gaps are at most r (a
\* timestamp equal to the running end extends the window); a single
\* timestamp t gives [[t, t + r]], and [0, 1, 4] with r = 2 gives
\* [[0, 3], [4, 6]].
C1_ComputeTimeWindows ==
    pc = "done" =>
        /\ Len(windows) = Cardinality(C1_RunStarts(list_ts, resolution))
        /\ \A k \in 1..Len(windows) : windows[k] = C1_Runs(list_ts, resolution)[k]
        /\ (list_ts = <<>> => windows = <<>>)
        /\ (Len(list_ts) = 1 =>
               windows = << <<list_ts[1], list_ts[1] + resolution>> >>)
        /\ (list_ts = <<0, 1, 4>> /\ resolution = 2 =>
               windows = << <<0, 3>>, <<4, 6>> >>)

\* A timestamp equal to the running end extended a window and a later one
\* opened a second window.
C1_Witness ==
    /\ pc = "done"
    /\ resolution > 0
    /\ Len(list_ts) >= 3
    /\ list_ts[2] = list_ts[1] + resolution
    /\ Len(windows) = 2

\* --- C2
\* The place of input window i after a stable sort on the start.
C2_Rank(ws, i) ==
    Cardinality({j \in 1..Len(ws) :
                    \/ ws[j][1] < ws[i][1]
                    \/ (ws[j][1] = ws[i][1] /\ j <= i)})

C2_Sorted(ws) ==
    [k \in 1..Len(ws) |-> ws[CHOOSE i \in 1..Len(ws) : C2_Rank(ws, i) = k]]

\* The sorted windows that are not merged into an earlier one: the first,
\* and every one that starts at or after the end of all the earlier ones.
C2_Heads(sw) ==
    {i \in 1..Len(sw) : \A j \in 1..(i - 1) : sw[i][1] >= sw[j][2]}

C2_Merged(sw) ==
    [k \in 1..Cardinality(C2_Heads(sw)) |->
        LET h == KthOf(C2_Heads(sw), k)
            tail == MaxOf({j \in h..Len(sw) :
                              \A m \in (h + 1)..j : m \notin C2_Heads(sw)})
        IN  <<sw[h][1], MaxOf({sw[j][2] : j \in h..tail})>>]

\* Whether the instant t2/2 lies in one of the windows.
C2_Covers(ws, t2) ==
    \E i \in 1..Len(ws) : 2 * ws[i][1] <= t2 /\ t2 <= 2 * ws[i][2]

\* C2: for windows with start <= end in any order, _compress_time_windows
\* returns windows sorted by start, each starting at or after the end of the
\* one before it, covering exactly the instants the input covers; a window is
\* merged only when it starts strictly before the running end (which becomes
\* the larger end), so [[0,1],[1,2]] stays two windows and [[0,2],[1,3]]
\* becomes [[0,3]].
C2_CompressTimeWindows ==
    pc = "done" =>
        /\ \A k \in 1..(Len(compressed) - 1) :
              /\ compressed[k][1] <= compressed[k + 1][1]
              /\ compressed[k][2] <= compressed[k + 1][1]
        /\ \A t2 \in 0..(2 * MaxEnd) :
              C2_Covers(cw_in, t2) <=> C2_Covers(compressed, t2)
        /\ Len(compressed) = Cardinality(C2_Heads(C2_Sorted(cw_in)))
        /\ \A k \in 1..Len(compressed) :
              compressed[k] = C2_Merged(C2_Sorted(cw_in))[k]
        /\ (cw_in = << <<0, 1>>, <<1, 2>> >> => compressed = cw_in)
        /\ (cw_in = << <<0, 2>>, <<1, 3>> >> => compressed = << <<0, 3>> >>)

\* Three windows given out of order: two overlap and were merged, and the
\* third touches the merged window and stayed apart.
C2_Witness ==
    /\ pc = "done"
    /\ Len(cw_in) = 3
    /\ cw_in[1][1] > cw_in[2][1]
    /\ Len(compressed) = 2
    /\ compressed[1][2] = compressed[2][1]
    /\ compressed[1][1] < compressed[1][2]
    /\ compressed[2][1] < compressed[2][2]

\* --- C8
\* <integer><unit>, and nothing else.
C8_OfForm(s) ==
    /\ Len(s) >= 2
    /\ \A i \in 1..(Len(s) - 1) : s[i] \in Digits
    /\ s[Len(s)] \in Units

\* C8: _parse_resolution returns a duration for every string of the form
\* <integer><unit> with unit in {s, m, h, d, w, y} (the integer times the
\* unit's length), and fails with the invalid-resolution error (ValueError)
\* for every other string.
C8_ParseResolution ==
    pc = "done" =>
        IF C8_OfForm(res)
        THEN /\ parsed.raises = None
             /\ mapping(res[Len(res)]) \in TimedeltaKwargs =>
                   parsed.value = IntOf(SubSeq(res, 1, Len(res) - 1))
                                    * SecondsOf(mapping(res[Len(res)]))
        ELSE parsed.raises = "ValueError"

----------------------------------------------------------------------------
(* Properties of _template_vars *)

\* The firing rows of the frame the datasource returns, in frame order.
FiringRows == SelectSeq(query(result).rows, LAMBDA row : row.alertstate = "firing")

\* The series of the result that are firing.
FiringSeries ==
    {i \in 1..Len(result) : result[i].metric.alertstate = "firing"}

\* The first series of the result with which an alert name is met firing.
FirstSeen(alertname) ==
    CHOOSE i \in FiringSeries :
        /\ result[i].metric.alertname = alertname
        /\ \A j \in FiringSeries : j < i => result[j].metric.alertname # alertname

FiringNames == {result[i].metric.alertname : i \in FiringSeries}

Devices == {result[i].metric.device : i \in FiringSeries}

\* The number of firing rows of an alert name.
RowsOf(alertname) ==
    LET rows == FiringRows
    IN  Cardinality({i \in 1..Len(rows) : rows[i].alertname = alertname})

\* The rounded timestamps of one label group, in frame order.
GroupTimestamps(alertname, device) ==
    LET rows == SelectSeq(FiringRows,
                    LAMBDA row : row.alertname = alertname /\ row.device = device)
    IN  [i \in 1..Len(rows) |-> RoundTime(rows[i].time, resolution)]

\* The sum of f[x] over the x in S.
RECURSIVE SumOver(_, _)
SumOver(S, f) ==
    IF S = {} THEN 0
    ELSE LET x == CHOOSE y \in S : TRUE IN f[x] + SumOver(S \ {x}, f)

\* --- C3
\* C3: every window of every Alert Summary that _template_vars produces has
\* start <= end, whatever the order of a label group's rows in the table.
C3_WindowsWellFormed ==
    tv.cached =>
        \A k \in 1..Len(tv.summary) :
            \A i \in 1..Len(tv.summary[k].windows) :
                tv.summary[k].windows[i][1] <= tv.summary[k].windows[i][2]

\* --- C4
\* C4 as claimed: num_firings is the number of firing rows of the alert name.
C4_NumFiringsCountsRows ==
    tv.cached =>
        \A k \in 1..Len(tv.summary) :
            tv.summary[k].num_firings = RowsOf(tv.summary[k].alertname)

\* C4 as amended: num_firings is the number of windows built for the alert
\* name's label groups, summed over the groups and counted before the groups'
\* windows are compressed together: one per timestamp of a group that is the
\* group's first or lies more than one resolution after the one before it.
C4_NumFiringsCountsWindows ==
    tv.cached =>
        \A k \in 1..Len(tv.summary) :
            LET opened == [d \in Devices |->
                    Cardinality(C1_RunStarts(
                        GroupTimestamps(tv.summary[k].alertname, d), resolution))]
            IN  tv.summary[k].num_firings = SumOver(Devices, opened)

\* An alert name with two label groups, more rows than windows built, and
\* more windows built than are left after compression.
C4_Witness ==
    /\ tv.cached
    /\ \E k \in 1..Len(tv.summary) :
          LET a == tv.summary[k]
          IN  /\ GroupTimestamps(a.alertname, "d1") # <<>>
              /\ GroupTimestamps(a.alertname, "d2") # <<>>
              /\ RowsOf(a.alertname) = 3
              /\ a.num_firings = 2
              /\ Len(a.windows) = 1

\* --- C5
\* C5: every Timeline Entry has offset_pct in [0, 100] and width_pct in
\* [0, 100] (10000 hundredths).
C5_TimelineInRange ==
    tv.cached =>
        \A i \in 1..Len(tv.timeline) :
            /\ 0 <= tv.timeline[i][1] /\ tv.timeline[i][1] <= 10000
            /\ 0 <= tv.timeline[i][2] /\ tv.timeline[i][2] <= 10000

\* --- C6
\* h is x / td as a percentage rounded to the nearest hundredth.
C6_IsPct(h, x, td) ==
    LET diff == h * td - 10000 * x
    IN  2 * (IF diff >= 0 THEN diff ELSE -diff) <= td

\* The summary of an alert name.
SummaryOf(alertname) ==
    tv.summary[CHOOSE k \in 1..Len(tv.summary) : tv.summary[k].alertname = alertname]

\* The compressed windows of all alert names, the names in the order in
\* which they are first met.
C6_AllWindows ==
    LET names == [n \in 1..Cardinality(FiringNames) |->
                     CHOOSE a \in FiringNames :
                         Cardinality({b \in FiringNames :
                                         FirstSeen(b) <= FirstSeen(a)}) = n]
    IN  Chain([n \in 1..Len(names) |-> SummaryOf(names[n]).windows])

\* C6: the timeline holds exactly one entry per compressed window of every
\* alert name, the names taken in the order they are first met and never
\* merged with each other; the entry of window [start, end] has
\* offset_pct = max(0, 100 * (start - report.start) / duration) and
\* width_pct = 100 * (end - start) / duration, each rounded to 2 decimals:
\* the width is neither reduced by the clamped part nor capped at the report's
\* end.  With the report beginning at 2 and lasting 12, window [0, 5] has
\* offset 0 and width 41.67.
C6_Timeline ==
    tv.cached =>
        LET td == report.end_date - report.start_date
            all == C6_AllWindows
        IN  /\ Len(tv.timeline) = Len(all)
            /\ \A i \in 1..Len(tv.timeline) :
                  LET w == all[i]
                      e == tv.timeline[i]
                  IN  /\ IF w[1] <= report.start_date
                         THEN e[1] = 0
                         ELSE C6_IsPct(e[1], w[1] - report.start_date, td)
                      /\ C6_IsPct(e[2], w[2] - w[1], td)
                      /\ (report.start_date = 2 /\ td = 12 /\ w = <<0, 5>> =>
                             e = <<0, 4167>>)

\* Two alert names; a window that begins before the report does was floored
\* to offset 0 with its whole width kept, and a window that ends after the
\* report does kept its whole width too.
C6_Witness ==
    /\ tv.cached
    /\ Len(tv.summary) = 2
    /\ Len(tv.timeline) = 3
    /\ \E i, j \in 1..Len(tv.timeline) :
          /\ C6_AllWindows[i][1] < report.start_date
          /\ tv.timeline[i][1] = 0
          /\ tv.timeline[i][2] = 4167
          /\ C6_AllWindows[j][2] > report.end_date
          /\ tv.timeline[j][1] + tv.timeline[j][2] > 10000

\* --- C7
\* C7: the summary lists every alert name once, in non-increasing order of
\* total_time, and names with equal total_time in the order in which they
\* are first met in the table.
C7_Ranking ==
    tv.cached =>
        /\ {tv.summary[k].alertname : k \in 1..Len(tv.summary)} = FiringNames
        /\ Len(tv.summary) = Cardinality(FiringNames)
        /\ \A i, j \in 1..Len(tv.summary) :
              i < j =>
                 /\ tv.summary[i].total_time >= tv.summary[j].total_time
                 /\ tv.summary[i].total_time = tv.summary[j].total_time =>
                       FirstSeen(tv.summary[i].alertname)
                           < FirstSeen(tv.summary[j].alertname)

\* Alert names met in the order A, B, C, with A and C firing equally long and
\* B for a shorter time, are listed A, C, B.
C7_Witness ==
    /\ tv.cached
    /\ Len(tv.summary) = 3
    /\ FiringNames = {"A", "B", "C"}
    /\ FirstSeen("A") < FirstSeen("B") /\ FirstSeen("B") < FirstSeen("C")
    /\ tv.summary[1].alertname = "A"
    /\ tv.summary[2].alertname = "C"
    /\ tv.summary[3].alertname = "B"
    /\ tv.summary[1].total_time = tv.summary[2].total_time
    /\ tv.summary[2].total_time > tv.summary[3].total_time

\* --- C9
\* C9: when the query yields no firing sample (no row at all, or only rows
\* whose alert state is not "firing"), _template_vars raises nothing and
\* returns an empty summary and an empty timeline.
C9_EmptyTable ==
    pc = "done" /\ FiringRows = <<>> =>
        /\ raised = None
        /\ tv.cached
        /\ tv.summary = <<>>
        /\ tv.timeline = <<>>

\* --- C12
\* The windows of one label group of an alert name, before compression.
C12_GroupWindows(alertname, device) ==
    compute_time_windows(GroupTimestamps(alertname, device), resolution)

\* The seconds [t, t+1) a window of the view can cover.
C12_Instants == 0..(report.end_date + 2 * resolution)

\* Whether window w covers the second [t, t+1).
C12_Covers(w, t) == w[1] <= t /\ t < w[2]

\* total_time of a summary is the sum of its windows' lengths.
C12_IsSum(a) ==
    LET lengths == [i \in 1..Len(a.windows) |-> a.windows[i][2] - a.windows[i][1]]
    IN  a.total_time = SumOver(1..Len(a.windows), lengths)

\* A second covered by a window of any label group of the alert name lies in
\* exactly one window of the summary, and any other second in none.
C12_CountedOnce(a) ==
    \A t \in C12_Instants :
        LET n == Cardinality({i \in 1..Len(a.windows) : C12_Covers(a.windows[i], t)})
            covered == \E d \in Devices :
                           LET gw == C12_GroupWindows(a.alertname, d)
                           IN  \E i \in 1..Len(gw) : C12_Covers(gw[i], t)
        IN  n = IF covered THEN 1 ELSE 0

\* C12: for every alert name, the Alert Summary's total_time is the sum of
\* (end - start) over that summary's compressed windows, so an instant that
\* the windows of several label groups of the alert name cover is counted
\* once; compressed windows [[0,10],[20,25]] give total_time 15.
C12_TotalTime ==
    /\ total_time(<<<<0, 10>>, <<20, 25>>>>) = 15
    /\ tv.cached =>
          \A k \in 1..Len(tv.summary) :
              C12_IsSum(tv.summary[k]) /\ C12_CountedOnce(tv.summary[k])

\* An alert name with two label groups whose windows overlap: the summary
\* keeps two separate windows and its total is less than the groups' windows
\* add up to.
C12_Witness ==
    /\ tv.cached
    /\ \E k \in 1..Len(tv.summary) :
          LET a == tv.summary[k]
              d1 == C12_GroupWindows(a.alertname, "d1")
              d2 == C12_GroupWindows(a.alertname, "d2")
          IN  /\ Len(d1) = 2 /\ Len(d2) = 1
              /\ d2[1] = d1[1]
              /\ Len(a.windows) = 2
              /\ a.windows[1][2] < a.windows[2][1]
              /\ a.total_time = 2 * resolution
              /\ total_time(d1) + total_time(d2) = 3 * resolution

----------------------------------------------------------------------------
(* Properties of the plugin manager *)

\* --- C10
\* Whether resolving the entry fails: no such entry, no plugin key, a plugin
\* key the registry does not know, args that are no mapping, or a constructor
\* that raises.
C10_ResolveFails(n) ==
    \/ n \notin DOMAIN conf
    \/ conf[n].plugin = ""
    \/ conf[n].plugin \notin DOMAIN Registry
    \/ conf[n].args = "scalar"
    \/ Registry[conf[n].plugin].ctor = "raises"

\* The error class the manager is declared with.
C10_ErrorClass ==
    IF manager = "OutputDriverManager" THEN "OutputDriverError" ELSE "TestException"

C10_Recorded ==
    /\ ~last.escaped
    /\ \A n \in AllNames : \A i \in 1..Len(errs[n]) :
          errs[n][i].cls = C10_ErrorClass /\ errs[n][i].name = n

C10_Call ==
    LET n == last'.name
        called == last'.op \in {"resolve", "invoke"}
        failed == \/ C10_ResolveFails(n)
                  \/ last'.op = "invoke" /\ last'.method \in {"bad_method", "no_method"}
    IN  /\ \A m \in AllNames \ {n} : errs'[m] = errs[m]
        /\ called /\ failed =>
              /\ Len(errs'[n]) = Len(errs[n]) + 1
              /\ SubSeq(errs'[n], 1, Len(errs[n])) = errs[n]
        /\ ~(called /\ failed) => errs'[n] = errs[n]
        /\ last'.op = "errors" => last'.errors = errs[n]
        /\ called /\ ~C10_ResolveFails(n) =>
              /\ last'.instance # 0
              /\ instances'[n] = last'.instance
              /\ (last'.op = "invoke" /\ last'.method = "my_method" =>
                     last'.value = "value")

C11_Valid(n) ==
    /\ n \in DOMAIN conf
    /\ conf[n].plugin \in DOMAIN Registry
    /\ conf[n].args # "scalar"
    /\ Registry[conf[n].plugin].ctor = "ok"

\* The constructor ran at most once for a valid entry, and exactly once when
\* the entry has an instance; the instances of different entries differ; the
\* last resolve or invoke of a valid entry returned that entry's instance,
\* and its method answered.
C11_Instances ==
    /\ \A n \in Names : C11_Valid(n) =>
          /\ ctor_calls[n] <= 1
          /\ (instances[n] # 0 <=> ctor_calls[n] = 1)
    /\ \A n, m \in Names :
          n # m /\ instances[n] # 0 /\ instances[m] # 0 =>
             instances[n] # instances[m]
    /\ last.op \in {"resolve", "invoke"} /\ C11_Valid(last.name) =>
          /\ last.instance # 0
          /\ last.instance = instances[last.name]
          /\ (last.op = "invoke" /\ last.method = "my_method" =>
                 last.value = "value")

\* An entry's instance, once constructed, is the one every later call finds,
\* and a call constructs for the called entry only.
C11_Kept ==
    /\ \A n \in AllNames : instances[n] # 0 => instances'[n] = instances[n]
    /\ \A n \in AllNames \ {last'.name} :
          instances'[n] = instances[n] /\ ctor_calls'[n] = ctor_calls[n]

\* C11: for a valid Configuration Entry and any sequence of resolve and
\* invoke calls, the constructor runs at most once for the entry and every
\* resolve(name) returns the same instance; two entries with the same plugin
\* key and different names resolve to two distinct instances, each answering
\* invoke for its own name.
C11_Memoized == [](C11_Instances) /\ [][C11_Kept]_vars

\* Two entries with the same plugin key: "second" was constructed first,
\* "first" after it, and a later invoke of "second" found the instance that
\* was constructed for it.
C11_Witness ==
    /\ conf["first"] = conf["second"]
    /\ C11_Valid("first") /\ C11_Valid("second")
    /\ instances["second"] = 1 /\ instances["first"] = 2
    /\ ctor_calls["first"] = 1 /\ ctor_calls["second"] = 1
    /\ last.op = "invoke" /\ last.name = "second" /\ last.method = "my_method"
    /\ last.instance = 1 /\ last.value = "value"

====
